---- MODULE Spec2Model ----
(***************************************************************************)
(* gnt2influx: G-NetTrack log files (CSV/TSV and KML) are parsed into      *)
(* GNetTrackRecord values and uploaded to InfluxDB 1.x / 2.x.              *)
(*                                                                         *)
(* The model follows the control flow of src/src/main.rs, parser.rs,       *)
(* kml_parser.rs and influx_client.rs.  Each loop iteration, each reader   *)
(* event and each awaited network call is one action.  Input (file lines,  *)
(* XML events, server answers) is chosen nondeterministically when the     *)
(* code reads it.                                                          *)
(***************************************************************************)
EXTENDS Integers, Sequences, FiniteSets, TLC

\* ------------------------------------------------------------------ bounds
\* longest record sequence handed to write_records_batch on its own
MaxRecords == 4
\* largest configured batch_size
MaxBatch == 3
\* most data lines (blank lines included) of a tabular file
MaxLines == 3
\* most XML events of a KML document, End and Eof events not counted
MaxEvents == 6
\* deepest nesting of open elements in a KML document
MaxDepth == 3
\* most lines or XML events of the input file of a whole pipeline run
MaxInput == 2
\* the largest value of the error counter of KmlParser::parse_file
MaxErrors == 8

\* ----------------------------------------------------------------- helpers
None == "None"

Min(a, b) == IF a < b THEN a ELSE b

RECURSIVE Concat(_)
Concat(ss) == IF ss = <<>> THEN <<>> ELSE Head(ss) \o Concat(Tail(ss))

IsPrefix(s, t) == Len(s) <= Len(t) /\ SubSeq(t, 1, Len(s)) = s

\* str::to_lowercase on the header spellings and file names the model uses
\* (parser.rs:61, main.rs:121); any other string used is lower case already.
ToLower(h) ==
    CASE h = "Timestamp" -> "timestamp"
      [] h = "TIME" -> "time"
      [] h = "Time" -> "time"
      [] h = "Level" -> "level"
      [] h = "RSRP" -> "rsrp"
      [] h = "Lon" -> "lon"
      [] h = "Speed" -> "speed"
      [] h = "Operator" -> "operator"
      [] h = "CellID" -> "cellid"
      [] h = "Altitude" -> "altitude"
      [] h = "TRACK.KML" -> "track.kml"
      [] OTHER -> h

\* ------------------------------------------------------- GNetTrackRecord
\* parser.rs:10-31.  Every field but timestamp is an Option.
NumericFields == {"longitude", "latitude", "speed", "level", "qual", "snr",
                  "cqi", "dl_bitrate", "ul_bitrate"}
TagFields == {"operator_name", "operator_code", "cell_id", "network_tech",
              "network_mode", "lac"}
StringFields == {"cgi", "cellname", "node", "arfcn"}
OptionFields == NumericFields \cup TagFields \cup StringFields

\* A record whose optional fields are all absent.
GNetTrackRecord(ts) ==
    [f \in OptionFields \cup {"timestamp"} |->
        IF f = "timestamp" THEN ts ELSE None]

\* ------------------------------------------------------------ InfluxClient
\* InfluxClient::new choosing V2 on a token alone
NewOnTokenAlone(c) ==
    IF c.token # None /\ c.token # ""
    THEN [variant |-> "V2", org |-> c.org, bucket |-> c.database,
          auth |-> "token"]
    ELSE [variant |-> "V1", database |-> c.database,
          auth |-> IF c.username # "" THEN "basic" ELSE "anonymous"]
\* influx_client.rs:24-54
New(c) ==
    IF c.token # None /\ c.token # "" /\ c.org # None /\ c.org # ""
    THEN [variant |-> "V2", org |-> c.org, bucket |-> c.database,
          auth |-> "token"]
    ELSE [variant |-> "V1", database |-> c.database,
          auth |-> IF c.username # "" THEN "basic" ELSE "anonymous"]

\* DateTime::timestamp_nanos_opt().unwrap_or(0) (influx_client.rs:172,
\* 277): the signed nanoseconds of an instant, written as the instant itself
\* except for the one instant before 1970 the model uses
TimestampNanos(ts) ==
    IF ts = "1969-12-31T23:59:59Z" THEN "-1000000000" ELSE ts

\* influx_client.rs:172: `as u128` on the i64; a negative number wraps
AsU128(n) == IF n = "-1000000000" THEN "2^128-1000000000" ELSE n

\* The attributes of r among names that are present, each as a triple of
\* name, type and value
Present3(r, names, type) ==
    {<<names[i], type, r[names[i]]>> :
        i \in {k \in 1..Len(names) : r[names[k]] # None}}

\* influx_client.rs:177-194, add_tag
V1Tags == <<"operator_name", "operator_code", "cell_id", "network_tech",
            "network_mode", "lac">>
\* influx_client.rs:197-223, add_field with an f64
V1Numeric == <<"longitude", "latitude", "speed", "level", "qual", "snr",
               "cqi", "dl_bitrate", "ul_bitrate">>
\* influx_client.rs:226-237, add_field with a String
V1Strings == <<"cgi", "cellname", "node", "arfcn">>

\* A writer that sends the LAC as a field
PointWithLacField(r) ==
    [measurement |-> "network_measurements",
     tags |-> {<<"measurement_type", "str", "gnettrack">>}
              \cup Present3(r, SubSeq(V1Tags, 1, 5), "str"),
     fields |-> Present3(r, V1Numeric, "f64")
                \cup Present3(r, V1Strings \o <<"lac">>, "str"),
     timestamp |-> AsU128(TimestampNanos(r.timestamp))]

\* influx_client.rs:170-242: one WriteQuery per record
PointV1(r) ==
    [measurement |-> "network_measurements",
     tags |-> {<<"measurement_type", "str", "gnettrack">>}
              \cup Present3(r, V1Tags, "str"),
     fields |-> Present3(r, V1Numeric, "f64") \cup Present3(r, V1Strings, "str"),
     timestamp |-> AsU128(TimestampNanos(r.timestamp))]

\* influx_client.rs:280-298, tag
V2Tags == <<"operator_name", "operator_code", "cell_id", "network_tech",
            "network_mode", "lac">>
\* influx_client.rs:300-327, field with an f64
V2Numeric == <<"longitude", "latitude", "speed", "level", "qual", "snr",
               "cqi", "dl_bitrate", "ul_bitrate">>
\* influx_client.rs:329-341, field with a &str
V2Strings == <<"cgi", "cellname", "node", "arfcn">>

\* influx_client.rs:273-346: one DataPoint per record
PointV2(r) ==
    [measurement |-> "network_measurements",
     tags |-> {<<"measurement_type", "str", "gnettrack">>}
              \cup Present3(r, V2Tags, "str"),
     fields |-> Present3(r, V2Numeric, "f64") \cup Present3(r, V2Strings, "str"),
     timestamp |-> TimestampNanos(r.timestamp)]

Points(cl, recs) ==
    [i \in 1..Len(recs) |->
        IF cl.variant = "V1" THEN PointV1(recs[i]) ELSE PointV2(recs[i])]

\* influx_client.rs:156-159, 250, 354: the single wire operation of a write
WriteOp(cl, recs) ==
    IF cl.variant = "V1"
    THEN [op |-> "v1_write", target |-> cl.database, points |-> Points(cl, recs)]
    ELSE [op |-> "v2_write", target |-> cl.bucket, points |-> Points(cl, recs)]

\* influx_client.rs:343 (V2): data_point.build() gives a Result, and `?`
\* returns its Err from write_records before anything is sent; the V1
\* writer builds its WriteQuery values without a Result
BuildOutcomes(cl) == IF cl.variant = "V2" THEN BOOLEAN ELSE {TRUE}

\* influx_client.rs:151-160, 250, 354: the wire operations write_records
\* issues for its input, built telling whether every point could be built
WriteRecordsSendsPerRecord(cl, recs, built) ==
    IF recs = <<>> \/ ~built THEN <<>>
    ELSE [i \in 1..Len(recs) |-> WriteOp(cl, <<recs[i]>>)]
WriteRecordsSends(cl, recs, built) ==
    IF recs = <<>> \/ ~built THEN <<>> ELSE <<WriteOp(cl, recs)>>

\* influx_client.rs:152-154, 343: what write_records returns before any
\* answer: Ok for an empty input, Err for a point that cannot be built;
\* otherwise it awaits the answer to its wire operation
WriteRecordsEarly(recs, built) ==
    IF recs = <<>> THEN "ok" ELSE IF ~built THEN "err" ELSE "await"

\* influx_client.rs:250-262, 354-366: the Result for the answer
WriteRecordsResult(ok) == IF ok THEN "ok" ELSE "err"

\* influx_client.rs:56-82: the wire operation of test_connection
TestConnectionOp(cl) ==
    IF cl.variant = "V1"
    THEN [op |-> "v1_show_databases", target |-> None, points |-> <<>>]
    ELSE [op |-> "v2_health", target |-> None, points |-> <<>>]

\* influx_client.rs:86-88: the wire operation of
\* create_database_if_not_exists for V1 (V2 has none)
CreateDatabaseOp(cl) ==
    [op |-> "v1_create_database", target |-> cl.database, points |-> <<>>]

\* influx_client.rs:88-98: the Result of create_database_if_not_exists for
\* the answer to its statement, Ok in both arms (main.rs:187 applies `?`)
CreateDatabasePropagates(ok) == IF ok THEN "ok" ELSE "err"
CreateDatabaseResult(ok) == "ok"

\* main.rs:171-184: a failed connectivity test returns the error from main
ConnectionErrorIgnored(ok) == FALSE
ConnectionErrorReturns(ok) == ~ok

\* main.rs:131: records.is_empty()
NeverEmpty(recs) == FALSE
IsEmpty(recs) == recs = <<>>

\* main.rs:144: matches.get_flag("dry-run")
DryRunIgnored(a) == FALSE
DryRun(a) == a.dry_run

\* main.rs:113: Path::new(input_file).exists()
Exists(input_file) == input_file # "missing.csv"

EndsWith(s, suffix) ==
    Len(s) >= Len(suffix) /\ SubSeq(s, Len(s) - Len(suffix) + 1, Len(s)) = suffix

\* main.rs:121
IsKml(input_file) == EndsWith(ToLower(input_file), ".kml")

\* influx_client.rs:384: records.chunks(batch_size), the i-th chunk (0-based)
ChunkDropsShortTail(recs, bs, i) ==
    IF (i + 1) * bs <= Len(recs) THEN SubSeq(recs, i * bs + 1, (i + 1) * bs)
    ELSE <<>>
Chunk(recs, bs, i) == SubSeq(recs, i * bs + 1, Min((i + 1) * bs, Len(recs)))

\* influx_client.rs:384: the chunk iterator is exhausted
ChunksExhausted(recs, bs, i) == i * bs >= Len(recs)

\* influx_client.rs:386: `?` returns from the function on an Err
QuestionMarkIgnoresErr(ok) == FALSE
QuestionMarkReturns(ok) == ~ok

\* ---------------------------------------------------- tabular parser
\* parser.rs:63-127: the field a lower-case header names, None if unknown
FieldOfHeader(h) ==
    CASE h \in {"timestamp", "time"} -> "timestamp"
      [] h \in {"longitude", "lon"} -> "longitude"
      [] h \in {"latitude", "lat"} -> "latitude"
      [] h = "speed" -> "speed"
      [] h \in {"operator", "operator_name"} -> "operator_name"
      [] h \in {"mcc-mnc", "operator_code"} -> "operator_code"
      [] h = "cgi" -> "cgi"
      [] h = "cellname" -> "cellname"
      [] h \in {"node", "rnc", "enodeb"} -> "node"
      [] h \in {"cellid", "cell_id"} -> "cell_id"
      [] h = "lac" -> "lac"
      [] h \in {"networktech", "network_tech", "tech"} -> "network_tech"
      [] h \in {"networkmode", "network_mode", "mode"} -> "network_mode"
      [] h \in {"level", "rsrp", "rscp", "rxlevel"} -> "level"
      [] h \in {"qual", "rsrq", "ecno", "rxqual"} -> "qual"
      [] h = "snr" -> "snr"
      [] h = "cqi" -> "cqi"
      [] h = "arfcn" -> "arfcn"
      [] h \in {"dl_bitrate", "downlink_bitrate"} -> "dl_bitrate"
      [] h \in {"ul_bitrate", "uplink_bitrate"} -> "ul_bitrate"
      [] OTHER -> None

\* NaiveDateTime::parse_from_str(value, format) on the values the model
\* uses: the format a value is written in, None when it is in none of them.
FormatOf(value) ==
    CASE value = "2025-10-03 10:20:09" -> "%Y-%m-%d %H:%M:%S"
      [] value = "2025/10/03 10:20:09" -> "%Y/%m/%d %H:%M:%S"
      [] value = "03.10.2025 10:20:09" -> "%d.%m.%Y %H:%M:%S"
      [] value = "2025-10-03 10:20:09.123" -> "%Y-%m-%d %H:%M:%S%.3f"
      [] value = "2025-10-03T10:20:09" -> "%Y-%m-%dT%H:%M:%S"
      [] value = "2025-10-03T10:20:09Z" -> "%Y-%m-%dT%H:%M:%SZ"
      [] value = "2025-10-03T10:20:09.123Z" -> "%Y-%m-%dT%H:%M:%S%.3fZ"
      [] value = "2025.10.03 10.20.09" -> "%Y.%m.%d %H.%M.%S"
      [] value = "2025.10.03_10.20.09" -> "%Y.%m.%d_%H.%M.%S"
      [] OTHER -> None

\* The instant a value written in one of the formats denotes
InstantOf(value) ==
    IF value \in {"2025-10-03 10:20:09.123", "2025-10-03T10:20:09.123Z"}
    THEN "2025-10-03T10:20:09.123Z"
    ELSE "2025-10-03T10:20:09Z"

\* parser.rs:241-249
TimestampFormats ==
    <<"%Y-%m-%d %H:%M:%S", "%Y/%m/%d %H:%M:%S", "%d.%m.%Y %H:%M:%S",
      "%Y-%m-%d %H:%M:%S%.3f", "%Y-%m-%dT%H:%M:%S", "%Y-%m-%dT%H:%M:%SZ",
      "%Y-%m-%dT%H:%M:%S%.3fZ">>

\* parser.rs:258-259: value.parse::<i64>() and DateTime::from_timestamp,
\* which gives None for a number of seconds out of its range
EpochOf(value) ==
    CASE value = "1759486809" -> "2025-10-03T10:20:09Z"
      [] value = "0" -> "1970-01-01T00:00:00Z"
      [] value = "99999999999999999" -> None
      [] OTHER -> None

\* parse_timestamp with the final Err replaced by the current time
parse_timestamp_defaults_to_now(value) ==
    IF \E i \in 1..Len(TimestampFormats) : FormatOf(value) = TimestampFormats[i]
    THEN [ok |-> TRUE, ts |-> InstantOf(value)]
    ELSE IF EpochOf(value) # None THEN [ok |-> TRUE, ts |-> EpochOf(value)]
    ELSE [ok |-> TRUE, ts |-> "now"]
\* parser.rs:235-265.  Utc::now() is the instant "now".
parse_timestamp(value) ==
    IF value = "" THEN [ok |-> TRUE, ts |-> "now"]
    ELSE IF \E i \in 1..Len(TimestampFormats) :
                FormatOf(value) = TimestampFormats[i]
    THEN [ok |-> TRUE, ts |-> InstantOf(value)]
    ELSE IF EpochOf(value) # None THEN [ok |-> TRUE, ts |-> EpochOf(value)]
    ELSE [ok |-> FALSE, ts |-> None]

\* str::parse::<f64>() on the values the model uses, None for an Err
FloatOf(value) ==
    CASE value = "-95.5" -> "-95.5"
      [] value = "42" -> "42.0"
      [] value = "139.123" -> "139.123"
      [] value = "35.456" -> "35.456"
      [] value = "-95" -> "-95.0"
      [] value = "1e3" -> "1000.0"
      [] value = "0" -> "0.0"
      [] value = "1759486809" -> "1759486809.0"
      [] OTHER -> None

\* parse_float_optional with an unparseable value read as zero
parse_float_or_zero(value) ==
    IF FloatOf(value) = None THEN "0.0" ELSE FloatOf(value)
\* parser.rs:267-273
parse_float_optional(value) ==
    IF value = "" \/ value = "N/A" \/ value = "null" THEN None
    ELSE FloatOf(value)

\* parser.rs:59-130: the loop over the row's values from the i-th on; acc is
\* the record built so far.  A value with no header (headers.get(i) is
\* None) is passed over.
RECURSIVE FromCsvFrom(_, _, _, _)
FromCsvFrom(record, headers, i, acc) ==
    IF i > Len(record) THEN [ok |-> TRUE, rec |-> acc]
    ELSE IF i > Len(headers) THEN FromCsvFrom(record, headers, i + 1, acc)
    ELSE LET field == FieldOfHeader(ToLower(headers[i]))
             value == record[i]
         IN CASE field = "timestamp" ->
                   LET t == parse_timestamp(value)
                   IN IF t.ok
                      THEN FromCsvFrom(record, headers, i + 1,
                                       [acc EXCEPT !.timestamp = t.ts])
                      ELSE [ok |-> FALSE, rec |-> None]
              [] field \in NumericFields ->
                   FromCsvFrom(record, headers, i + 1,
                       [acc EXCEPT ![field] = parse_float_optional(value)])
              [] field \in TagFields \cup StringFields ->
                   FromCsvFrom(record, headers, i + 1,
                               [acc EXCEPT ![field] = value])
              [] OTHER -> FromCsvFrom(record, headers, i + 1, acc)

\* parser.rs:34-154
from_csv_record(record, headers) ==
    FromCsvFrom(record, headers, 1, GNetTrackRecord("now"))

\* parser.rs:191-206: the line number the parser reports for the record the
\* enumerate() index line_num belongs to
ReportedLineFromOne(line_num) == line_num + 1
ReportedLine(line_num) == line_num + 2

\* parser.rs:190, 203: with skip_invalid a failed row is skipped
SkipPolicyAlwaysAborts(skip_invalid) == FALSE
SkipPolicy(skip_invalid) == skip_invalid

\* ----------------------------------------------------------- KML parser
\* Strings are TLA+ strings: Len, \o and SubSeq act on their characters.
Char(s, i) == SubSeq(s, i, i)

\* str::replace for a one-character pattern (kml_parser.rs:252)
RECURSIVE ReplaceChar(_, _, _)
ReplaceChar(s, from, to) ==
    IF s = "" THEN ""
    ELSE (IF Char(s, 1) = from THEN to ELSE Char(s, 1))
         \o ReplaceChar(Tail(s), from, to)

\* str::replace(pat, "") (kml_parser.rs:197-198, 209-210, 220)
RECURSIVE Remove(_, _)
Remove(s, pat) ==
    IF Len(s) < Len(pat) THEN s
    ELSE IF SubSeq(s, 1, Len(pat)) = pat
         THEN Remove(SubSeq(s, Len(pat) + 1, Len(s)), pat)
         ELSE Char(s, 1) \o Remove(Tail(s), pat)

\* str::trim (kml_parser.rs:175, 199, 211)
RECURSIVE TrimStart(_)
TrimStart(s) ==
    IF s # "" /\ Char(s, 1) = " " THEN TrimStart(Tail(s)) ELSE s
RECURSIVE TrimEnd(_)
TrimEnd(s) ==
    IF s # "" /\ Char(s, Len(s)) = " "
    THEN TrimEnd(SubSeq(s, 1, Len(s) - 1)) ELSE s
Trim(s) == TrimEnd(TrimStart(s))

\* str::split(',') collected into a Vec (kml_parser.rs:175); cur is the part
\* being read
RECURSIVE SplitFrom(_, _)
SplitFrom(s, cur) ==
    IF s = "" THEN <<cur>>
    ELSE IF Char(s, 1) = "," THEN <<cur>> \o SplitFrom(Tail(s), "")
    ELSE SplitFrom(Tail(s), cur \o Char(s, 1))
SplitComma(s) == SplitFrom(s, "")

\* The five Data names add_data knows (kml_parser.rs:157-161), written in
\* the source in Japanese: technology, RSRP, speed, altitude, time.
TechnologyLabel == "gijutsu"
RsrpLabel == "RSRP"
SpeedLabel == "sokudo"
AltitudeLabel == "koudo"
TimeLabel == "jikan"

\* kml_parser.rs:140-153
PlacemarkDataNew ==
    [technology |-> None, rsrp |-> None, speed |-> None, altitude |-> None,
     time |-> None, coordinates |-> None]

\* kml_parser.rs:155-166.  Some("None") cannot be told from None in the
\* model, and no text of the model is "None".
add_data(pm, name, value) ==
    CASE name = TechnologyLabel -> [pm EXCEPT !.technology = value]
      [] name = RsrpLabel -> [pm EXCEPT !.rsrp = value]
      [] name = SpeedLabel -> [pm EXCEPT !.speed = value]
      [] name = AltitudeLabel -> [pm EXCEPT !.altitude = value]
      [] name = TimeLabel -> [pm EXCEPT !.time = value]
      [] OTHER -> pm

\* kml_parser.rs:168-170
set_coordinates(pm, coords) == [pm EXCEPT !.coordinates = coords]

\* kml_parser.rs:254-259
KmlFormats ==
    <<"%Y.%m.%d %H.%M.%S", "%Y.%m.%d_%H.%M.%S", "%Y-%m-%d %H:%M:%S",
      "%Y/%m/%d %H:%M:%S">>

\* kml_parser.rs:250-268
parse_kml_timestamp_defaults_to_now(time_str) ==
    LET cleaned == ReplaceChar(time_str, "_", " ")
    IN IF \E i \in 1..Len(KmlFormats) : FormatOf(cleaned) = KmlFormats[i]
       THEN [ok |-> TRUE, ts |-> InstantOf(cleaned)]
       ELSE [ok |-> TRUE, ts |-> "now"]
parse_kml_timestamp(time_str) ==
    LET cleaned == ReplaceChar(time_str, "_", " ")
    IN IF \E i \in 1..Len(KmlFormats) : FormatOf(cleaned) = KmlFormats[i]
       THEN [ok |-> TRUE, ts |-> InstantOf(cleaned)]
       ELSE [ok |-> FALSE, ts |-> None]

\* kml_parser.rs:172-247
to_record_requires_time(pm) ==
    IF pm.time = None THEN [ok |-> FALSE, rec |-> None]
    ELSE LET timestamp == parse_kml_timestamp(pm.time)
         IN IF ~timestamp.ok THEN [ok |-> FALSE, rec |-> None]
            ELSE [ok |-> TRUE,
                  rec |-> [GNetTrackRecord(timestamp.ts) EXCEPT
                             !.operator_name = "KDDI",
                             !.network_tech = pm.technology]]
to_record(pm) ==
    LET parts == IF pm.coordinates # None
                 THEN SplitComma(Trim(pm.coordinates)) ELSE <<>>
        longitude == IF Len(parts) >= 2 THEN FloatOf(parts[1]) ELSE None
        latitude == IF Len(parts) >= 2 THEN FloatOf(parts[2]) ELSE None
        timestamp == IF pm.time # None THEN parse_kml_timestamp(pm.time)
                     ELSE [ok |-> TRUE, ts |-> "now"]
        speed == IF pm.speed # None
                 THEN FloatOf(Trim(Remove(Remove(pm.speed, " km/h"), "km/h")))
                 ELSE None
        level == IF pm.rsrp # None
                 THEN FloatOf(Trim(Remove(Remove(pm.rsrp, " dBm"), "dBm")))
                 ELSE None
    IN IF ~timestamp.ok THEN [ok |-> FALSE, rec |-> None]
       ELSE [ok |-> TRUE,
             rec |-> [GNetTrackRecord(timestamp.ts) EXCEPT
                        !.longitude = longitude, !.latitude = latitude,
                        !.speed = speed, !.operator_name = "KDDI",
                        !.network_tech = pm.technology, !.level = level]]

\* BytesText::unescape().unwrap_or_default() on the texts the model uses
\* (kml_parser.rs:128): an unknown entity gives the empty string
Unescape(t) ==
    CASE t = "&bogus;" -> ""
      [] t = "&lt;5" -> "<5"
      [] OTHER -> t

\* --------------------------------------------------------------- state
VARIABLES
    config,       \* Config (config.rs:5-31)
    args,         \* parsed command line (main.rs:18-57)
    client,       \* InfluxClient built by new (main.rs:94)
    pc,           \* position in main and in the function it is executing
    outcome,      \* how the process ended: running, ok, err, exit1, panic
    records,      \* Vec<GNetTrackRecord> of the parser, then of main
    error_count,  \* error_count of the running parse_file
    parseResult,  \* Result of parse_file: none, ok, err
    errInfo,      \* what the Err of parse_file says
    headers,      \* the header record of the csv reader
    line_num,     \* enumerate() index of the next csv record
    lines,        \* the data lines of the file read so far, in file order
    budget,       \* lines or XML events the rest of the input file may hold
    in_placemark, \* KmlParser::parse_file: in_placemark
    current_placemark, \* KmlParser::parse_file: current_placemark
    name_str,     \* name attribute of the Data element being read
    content,      \* read_text_content: content; None outside it
    stack,        \* the XML reader: names of the elements open at its position
    atEof,        \* the XML reader has reached the end of the document
    docOk,        \* the document read so far is well-formed
    plainDoc,     \* so far no Placemark is an empty-element tag or nested
    closedPlacemarks, \* Placemark elements of the document closed so far
    convLog,      \* the accumulators to_record was called on, in call order
    elem,         \* the value or coordinates element the parser last set out to read
    medium,       \* reads of the file: sound, failing (may fail), failed
    bi,           \* index of the next chunk in write_records_batch
    batchResult,  \* Result of write_records_batch: none, ok, err
    calls,        \* arguments of the write_records calls made, in call order
    wire,         \* wire operations issued to the server, in issue order
    results       \* answers of the server to the wire operations, in order

cfgVars == <<config, args, client>>
parseVars == <<error_count, parseResult, errInfo>>
csvVars == <<headers, line_num, lines>>
kmlVars == <<in_placemark, current_placemark, name_str, content, convLog>>
docVars == <<stack, atEof, docOk, plainDoc, closedPlacemarks, elem, medium>>
xmlVars == <<budget, stack, atEof, docOk, plainDoc, closedPlacemarks, elem,
            medium>>
netVars == <<bi, batchResult, calls, wire, results>>
vars == <<config, args, client, pc, outcome, records, error_count,
          parseResult, errInfo, headers, line_num, lines, budget, in_placemark,
          current_placemark, name_str, content, stack, atEof, docOk,
          plainDoc, closedPlacemarks, convLog, elem, medium, bi, batchResult,
          calls, wire, results>>

\* No Err returned by parse_file
NoErr == [what |-> None, line |-> 0]

\* No value or coordinates element opened yet
NoElem == [depth |-> 0, text |-> "", open |-> FALSE, read |-> FALSE,
           name |-> None, child |-> FALSE]

\* Nothing parsed yet
ParseIdle ==
    /\ error_count = 0
    /\ parseResult = "none"
    /\ errInfo = NoErr
    /\ headers = <<>>
    /\ line_num = 0
    /\ lines = <<>>
    /\ in_placemark = FALSE
    /\ current_placemark = PlacemarkDataNew
    /\ name_str = None
    /\ content = None
    /\ stack = <<>>
    /\ atEof = FALSE
    /\ docOk = TRUE
    /\ plainDoc = TRUE
    /\ closedPlacemarks = 0
    /\ convLog = <<>>
    /\ elem = NoElem

\* Nothing sent yet
NetIdle ==
    /\ bi = 0
    /\ batchResult = "none"
    /\ calls = <<>>
    /\ wire = <<>>
    /\ results = <<>>

\* ------------------------------------------------- write_records_batch
\* influx_client.rs:369-384: entry, the empty check, the chunk iterator.
\* slice::chunks panics when chunk_size is 0.
WriteRecordsBatchEnter ==
    /\ pc = "wrb"
    /\ IF records = <<>>
       THEN /\ batchResult' = "ok"
            /\ pc' = "wrb_done"
            /\ outcome' = outcome
       ELSE IF config.processing.batch_size = 0
       THEN /\ batchResult' = batchResult
            /\ pc' = "exit"
            /\ outcome' = "panic"
       ELSE /\ batchResult' = batchResult
            /\ pc' = "wrb_loop"
            /\ outcome' = outcome
    /\ bi' = 0
    /\ UNCHANGED <<cfgVars, records, parseVars, csvVars, kmlVars, xmlVars, calls, wire, results>>

\* influx_client.rs:384-386 and 151-160: the next chunk is handed to
\* write_records, which returns at once for an empty chunk or a point that
\* cannot be built and otherwise issues one wire operation for the chunk.
WriteRecordsCall ==
    /\ pc = "wrb_loop"
    /\ ~ChunksExhausted(records, config.processing.batch_size, bi)
    /\ LET chunk == Chunk(records, config.processing.batch_size, bi)
       IN \E built \in BuildOutcomes(client) :
          /\ calls' = Append(calls, chunk)
          /\ wire' = wire \o WriteRecordsSends(client, chunk, built)
          /\ results' = results
          /\ CASE WriteRecordsEarly(chunk, built) = "await" ->
                    /\ bi' = bi
                    /\ pc' = "wrb_await"
                    /\ batchResult' = batchResult
               [] WriteRecordsEarly(chunk, built) = "ok" ->
                    /\ bi' = bi + 1
                    /\ pc' = pc
                    /\ batchResult' = batchResult
               [] OTHER ->
                    IF QuestionMarkReturns(FALSE)
                    THEN /\ batchResult' = "err"
                         /\ pc' = "wrb_done"
                         /\ bi' = bi
                    ELSE /\ batchResult' = batchResult
                         /\ pc' = pc
                         /\ bi' = bi + 1
    /\ UNCHANGED <<cfgVars, outcome, records, parseVars, csvVars, kmlVars, xmlVars>>

\* influx_client.rs:250-262, 354-366, 386: the awaited write returns
WriteRecordsReturn ==
    /\ pc = "wrb_await"
    /\ \E ok \in BOOLEAN :
          /\ results' = Append(results, ok)
          /\ IF QuestionMarkReturns(ok)
             THEN /\ batchResult' = "err"
                  /\ pc' = "wrb_done"
                  /\ bi' = bi
             ELSE /\ batchResult' = batchResult
                  /\ pc' = "wrb_loop"
                  /\ bi' = bi + 1
    /\ UNCHANGED <<cfgVars, outcome, records, parseVars, csvVars, kmlVars, xmlVars, calls, wire>>

\* influx_client.rs:389-393: all chunks written
WriteRecordsBatchOk ==
    /\ pc = "wrb_loop"
    /\ ChunksExhausted(records, config.processing.batch_size, bi)
    /\ batchResult' = "ok"
    /\ pc' = "wrb_done"
    /\ UNCHANGED <<cfgVars, outcome, records, parseVars, csvVars, kmlVars, xmlVars, bi, calls, wire,
                   results>>

BatchNext ==
    \/ WriteRecordsBatchEnter
    \/ WriteRecordsCall
    \/ WriteRecordsReturn
    \/ WriteRecordsBatchOk

\* ------------------------------------------------------- configurations
\* config.rs:12-31, with Config::default (config.rs:40-57) among them
InfluxDbConfigs ==
    [url : {"http://localhost:8086"}, database : {"gnettrack"},
     username : {"", "admin"}, password : {""},
     org : {None, "", "myorg"}, token : {None, "", "tok"}]

ProcessingConfigs == [batch_size : 0..MaxBatch, skip_invalid : BOOLEAN]

Configs == [influxdb : InfluxDbConfigs, processing : ProcessingConfigs]

NoArgs == [test_connection |-> FALSE, dry_run |-> FALSE, verbose |-> FALSE,
           input |-> None]

\* Records given to write_records_batch when it is run on its own
SampleRecords ==
    {[GNetTrackRecord("t1") EXCEPT !.level = "-95.0"],
     [GNetTrackRecord("t2") EXCEPT !.operator_name = "KDDI", !.speed = "42.0"]}

RECURSIVE SeqsUpTo(_, _)
SeqsUpTo(S, n) ==
    IF n = 0 THEN {<<>>}
    ELSE LET shorter == SeqsUpTo(S, n - 1)
         IN shorter \cup {Append(s, x) : s \in {t \in shorter : Len(t) = n - 1},
                                          x \in S}

\* write_records_batch on any record sequence, batch size and dialect
InitBatch ==
    /\ config \in {c \in Configs : /\ c.processing.skip_invalid
                                   /\ c.influxdb.username = ""
                                   /\ c.influxdb.org = "myorg"
                                   /\ c.influxdb.token \in {None, "tok"}}
    /\ args = NoArgs
    /\ client = New(config.influxdb)
    /\ pc = "wrb"
    /\ outcome = "running"
    /\ records \in SeqsUpTo(SampleRecords, MaxRecords)
    /\ budget = 0
    /\ ParseIdle
    /\ medium = "sound"
    /\ NetIdle

SpecBatch == InitBatch /\ [][BatchNext]_vars

\* ------------------------------------------------------- write_records
\* influx_client.rs:151-160 called on its own: the records are its input,
\* batchResult its Result
WriteRecordsAlone ==
    /\ pc = "wr"
    /\ \E built \in BuildOutcomes(client) :
          /\ calls' = Append(calls, records)
          /\ wire' = wire \o WriteRecordsSends(client, records, built)
          /\ IF WriteRecordsEarly(records, built) = "await"
             THEN /\ pc' = "wr_await"
                  /\ batchResult' = batchResult
             ELSE /\ pc' = "wr_done"
                  /\ batchResult' = WriteRecordsEarly(records, built)
    /\ UNCHANGED <<cfgVars, outcome, records, parseVars, csvVars, kmlVars,
                   xmlVars, bi, results>>

\* influx_client.rs:250-262, 354-366: the answer to the wire operation
WriteRecordsAloneReturn ==
    /\ pc = "wr_await"
    /\ \E ok \in BOOLEAN :
          /\ results' = Append(results, ok)
          /\ batchResult' = WriteRecordsResult(ok)
    /\ pc' = "wr_done"
    /\ UNCHANGED <<cfgVars, outcome, records, parseVars, csvVars, kmlVars,
                   xmlVars, bi, calls, wire>>

WriteNext == WriteRecordsAlone \/ WriteRecordsAloneReturn

\* write_records on any record sequence, the empty one included
InitWrite ==
    /\ config \in {c \in Configs : /\ c.processing.skip_invalid
                                   /\ c.influxdb.username = ""
                                   /\ c.influxdb.org = "myorg"
                                   /\ c.influxdb.token \in {None, "tok"}}
    /\ args = NoArgs
    /\ client = New(config.influxdb)
    /\ pc = "wr"
    /\ outcome = "running"
    /\ records \in SeqsUpTo(SampleRecords, MaxRecords)
    /\ budget = 0
    /\ ParseIdle
    /\ medium = "sound"
    /\ NetIdle

SpecWrite == InitWrite /\ [][WriteNext]_vars

\* Records with at most MaxPresent attributes present, and the record with
\* every attribute present; a numeric attribute holds "1.5", a text one "x"
MaxPresent == 2
ValueFor(f) == IF f \in NumericFields THEN "1.5" ELSE "x"
RecordWith(ts, present) ==
    [f \in OptionFields \cup {"timestamp"} |->
        IF f = "timestamp" THEN ts
        ELSE IF f \in present THEN ValueFor(f) ELSE None]
PresenceRecords ==
    {RecordWith(ts, present) :
        ts \in {"t1", "1969-12-31T23:59:59Z"},
        present \in {p \in SUBSET OptionFields :
                        Cardinality(p) <= MaxPresent \/ p = OptionFields}}

\* write_records on one record of any of these shapes, both dialects
InitPoint ==
    /\ config \in {c \in Configs : /\ c.processing.skip_invalid
                                   /\ c.processing.batch_size = MaxBatch
                                   /\ c.influxdb.username = ""
                                   /\ c.influxdb.org = "myorg"
                                   /\ c.influxdb.token \in {None, "tok"}}
    /\ args = NoArgs
    /\ client = New(config.influxdb)
    /\ pc = "wr"
    /\ outcome = "running"
    /\ \E r \in PresenceRecords : records = <<r>>
    /\ budget = 0
    /\ ParseIdle
    /\ medium = "sound"
    /\ NetIdle

SpecPoint == InitPoint /\ [][WriteNext]_vars

\* ------------------------------------------------ LogParser::parse_file
\* The physical lines after the header line.  The csv reader passes over a
\* blank line without yielding a record; a line whose field count differs
\* from the header's is yielded as an Err (flexible is off, parser.rs:173).
BlankLine == [kind |-> "blank", cells |-> <<>>]
MalformedLine == [kind |-> "malformed", cells |-> <<"x">>]
RowLine(cells) == [kind |-> "row", cells |-> cells]

HeaderLayouts == {<<"Timestamp", "Level">>, <<"TIME", "Lon">>,
                  <<"Level", "Speed">>}
FirstCells == {"", "2025-10-03 10:20:09", "not-a-date", "1759486809"}
SecondCells == {"-95.5", "N/A", "null"}
RowLines == {RowLine(<<a, b>>) : a \in FirstCells, b \in SecondCells}

RECURSIVE Blanks(_)
Blanks(n) == IF n = 0 THEN <<>> ELSE <<BlankLine>> \o Blanks(n - 1)

\* parser.rs:166-180: the file is opened and the header record read
CsvOpen ==
    /\ pc = "csv_open"
    /\ \/ /\ headers' \in HeaderLayouts
          /\ pc' = "csv_loop"
          /\ UNCHANGED <<parseResult, errInfo>>
       \/ /\ headers' = headers
          /\ parseResult' = "err"
          /\ errInfo' = [what |-> "headers", line |-> 0]
          /\ pc' = "parse_done"
    /\ records' = <<>>
    /\ error_count' = 0
    /\ line_num' = 0
    /\ UNCHANGED <<cfgVars, outcome, lines, kmlVars, xmlVars, netVars>>

\* parser.rs:182-210: one iteration of the loop over csv_reader.records().
\* The reader passes over `blanks` blank lines and yields the next line.
CsvRecord ==
    /\ pc = "csv_loop"
    /\ \E blanks \in 0..budget, line \in RowLines \cup {MalformedLine} :
          LET conv == IF line.kind = "row"
                      THEN from_csv_record(line.cells, headers)
                      ELSE [ok |-> FALSE, rec |-> None]
          IN /\ blanks + 1 <= budget
             /\ budget' = budget - blanks - 1
             /\ lines' = lines \o Blanks(blanks) \o <<line>>
             /\ line_num' = line_num + 1
             /\ IF conv.ok
                THEN /\ records' = Append(records, conv.rec)
                     /\ UNCHANGED <<error_count, parseResult, errInfo, pc>>
                ELSE /\ error_count' = error_count + 1
                     /\ IF SkipPolicy(config.processing.skip_invalid)
                        THEN UNCHANGED <<records, parseResult, errInfo, pc>>
                        ELSE /\ records' = <<>>
                             /\ parseResult' = "err"
                             /\ errInfo' =
                                  [what |-> IF line.kind = "row" THEN "record"
                                            ELSE "line",
                                   line |-> ReportedLine(line_num)]
                             /\ pc' = "parse_done"
    /\ UNCHANGED <<cfgVars, outcome, headers, kmlVars, docVars, netVars>>

\* parser.rs:182, 212-216: the reader is at the end of the file
CsvEof ==
    /\ pc = "csv_loop"
    /\ \E blanks \in 0..budget :
          /\ budget' = budget - blanks
          /\ lines' = lines \o Blanks(blanks)
    /\ parseResult' = "ok"
    /\ pc' = "parse_done"
    /\ UNCHANGED <<cfgVars, outcome, records, error_count, errInfo, headers,
                   line_num, kmlVars, docVars, netVars>>

CsvNext == CsvOpen \/ CsvRecord \/ CsvEof

\* LogParser::parse_file on any file within the bounds, under both policies
InitCsv ==
    /\ config \in {c \in Configs : /\ c.processing.batch_size = MaxBatch
                                   /\ c.influxdb.username = ""
                                   /\ c.influxdb.org = None
                                   /\ c.influxdb.token = None}
    /\ args = [NoArgs EXCEPT !.input = "log.csv"]
    /\ client = New(config.influxdb)
    /\ pc = "csv_open"
    /\ outcome = "running"
    /\ records = <<>>
    /\ budget = MaxLines
    /\ ParseIdle
    /\ medium = "sound"
    /\ NetIdle

SpecCsv == InitCsv /\ [][CsvNext]_vars

\* --------------------------------------- GNetTrackRecord::from_csv_record
\* parser.rs:34-154 called on its own, as parse_file calls it
\* (parser.rs:184): on one tokenized row of as many cells as the header
FromCsvRecordCall ==
    /\ pc = "row"
    /\ LET conv == from_csv_record(lines[1].cells, headers)
       IN IF conv.ok
          THEN /\ records' = <<conv.rec>>
               /\ parseResult' = "ok"
               /\ errInfo' = errInfo
          ELSE /\ records' = <<>>
               /\ parseResult' = "err"
               /\ errInfo' = [what |-> "record", line |-> 0]
    /\ pc' = "row_done"
    /\ UNCHANGED <<cfgVars, outcome, error_count, csvVars, kmlVars, xmlVars,
                   netVars>>

RowNext == FromCsvRecordCall

RowHeaderLayouts == {<<"Timestamp", "Level">>, <<"TIME", "Time">>,
                     <<"Level", "Speed">>, <<"Operator", "time">>}
RowCells == {"", "2025-10-03 10:20:09", "2025-10-03T10:20:09.123Z",
             "2025.10.03_10.20.09", "not-a-date", "1759486809",
             "99999999999999999", "N/A"}

\* from_csv_record on any header layout and row within the sets above
InitRow ==
    /\ config \in {c \in Configs : /\ c.processing.batch_size = MaxBatch
                                   /\ c.processing.skip_invalid
                                   /\ c.influxdb.username = ""
                                   /\ c.influxdb.org = None
                                   /\ c.influxdb.token = None}
    /\ args = [NoArgs EXCEPT !.input = "log.csv"]
    /\ client = New(config.influxdb)
    /\ pc = "row"
    /\ outcome = "running"
    /\ records = <<>>
    /\ budget = 0
    /\ error_count = 0
    /\ parseResult = "none"
    /\ errInfo = NoErr
    /\ headers \in RowHeaderLayouts
    /\ line_num = 0
    /\ \E a \in RowCells, b \in RowCells : lines = <<RowLine(<<a, b>>)>>
    /\ in_placemark = FALSE
    /\ current_placemark = PlacemarkDataNew
    /\ name_str = None
    /\ content = None
    /\ convLog = <<>>
    /\ stack = <<>>
    /\ atEof = FALSE
    /\ docOk = TRUE
    /\ plainDoc = TRUE
    /\ closedPlacemarks = 0
    /\ elem = NoElem
    /\ medium = "sound"
    /\ NetIdle

SpecRow == InitRow /\ [][RowNext]_vars

\* ---------------------------------------------------------------- C3
\* The data rows among the lines read, in file order
DataRows(ls) == SelectSeq(ls, LAMBDA l : l.kind # "blank")

ConvertsOk(l) == l.kind = "row" /\ from_csv_record(l.cells, headers).ok

RECURSIVE RecordsOf(_)
RecordsOf(ls) ==
    IF ls = <<>> THEN <<>>
    ELSE <<from_csv_record(Head(ls).cells, headers).rec>> \o RecordsOf(Tail(ls))

\* C3: with skip_invalid = true parse_file never fails because of a data
\* row: at every point of the loop, and when it returns, the records are
\* exactly the records of the rows that tokenize and convert, in file order,
\* every other data row has been counted once, and the parse returns Ok.
C3_SkipInvalidKeepsGoing ==
    (config.processing.skip_invalid /\ pc \in {"csv_loop", "parse_done"}
        /\ ~(parseResult = "err" /\ errInfo.what = "headers"))
    => /\ parseResult # "err"
       /\ records = RecordsOf(SelectSeq(lines, ConvertsOk))
       /\ Len(records) + error_count = Len(DataRows(lines))
       /\ error_count = Len(SelectSeq(DataRows(lines),
                                      LAMBDA l : ~ConvertsOk(l)))
       /\ pc = "parse_done" => parseResult = "ok"

\* C3 witness: a bad timestamp and a malformed line were skipped and a row
\* after them was returned
C3_Witness ==
    /\ config.processing.skip_invalid
    /\ pc = "parse_done" /\ parseResult = "ok"
    /\ error_count = 2
    /\ Len(records) = 1
    /\ Len(lines) = 3 /\ ConvertsOk(lines[3])

\* ---------------------------------------------------------------- C4
\* C4: with skip_invalid = false parse_file stops at the first failing data
\* row, returns an error and no records, and the error names the 1-based
\* line of that row in the file (the header is line 1, so the j-th line
\* after it is line j + 1).
C4_AbortCitesFileLine ==
    (~config.processing.skip_invalid /\ parseResult = "err"
        /\ errInfo.what # "headers")
    => /\ records = <<>>
       /\ ~ConvertsOk(lines[Len(lines)])
       /\ \A j \in 1..(Len(lines) - 1) :
             lines[j].kind # "blank" => ConvertsOk(lines[j])
       /\ errInfo.line = Len(lines) + 1

\* ------------------------------------------------ KmlParser::parse_file
\* Events of quick_xml's Reader::read_event_into.  The reader is set to
\* trim text (kml_parser.rs:23) and is otherwise as built: an empty-element
\* tag <e/> is one Empty event, and a closing tag that does not match the
\* open element is an Err.
Event(type, name, attr, text) ==
    [type |-> type, name |-> name, attr |-> attr, text |-> text]
EofEvent == Event("Eof", None, None, None)
ErrEvent == Event("Err", None, None, None)
IoErrEvent == Event("Err", "io", None, None)
CommentEvent == Event("Comment", None, None, None)
EndEvent(name) == Event("End", name, None, None)
StartEvents ==
    {Event("Start", "Placemark", None, None),
     Event("Start", "Data", TimeLabel, None),
     Event("Start", "Data", RsrpLabel, None),
     Event("Start", "Data", None, None),
     Event("Start", "value", None, None),
     Event("Start", "coordinates", None, None),
     Event("Start", "name", None, None)}
EmptyEvents == {Event("Empty", "Placemark", None, None)}
TextEvents ==
    {Event("Text", None, None, t) :
        t \in {"2025.10.03_10.20.09", "not-a-date", "139.123,35.456,10"}}

\* The events the reader can give next.  stack holds the elements open
\* inside the enclosing kml/Document element, whose own tags match no arm
\* of the parser.  An Err for ill-formed XML leaves the reader past the
\* offending input.  An Err for a failed read of the file (BufReader<File>,
\* kml_parser.rs:20-22) leaves the reader where it is: the next call reads
\* the file again and fails again.
ReadEvents ==
    IF medium = "failed" THEN {IoErrEvent}
    ELSE IF atEof THEN {EofEvent}
    ELSE {EofEvent}
         \cup (IF medium = "failing" THEN {IoErrEvent} ELSE {})
         \cup (IF stack # <<>> THEN {EndEvent(stack[Len(stack)])} ELSE {})
         \cup (IF budget > 0
               THEN (IF Len(stack) < MaxDepth THEN StartEvents ELSE {})
                    \cup EmptyEvents \cup TextEvents
                    \cup {CommentEvent, ErrEvent}
               ELSE {})

\* The parser enters read_text_content at this start tag
\* (kml_parser.rs:47-50, 104-106)
EntersReadTextContent(ev) ==
    /\ ev.type = "Start"
    /\ \/ pc = "kml_rdv" /\ ev.name = "value"
       \/ pc = "kml_loop" /\ in_placemark /\ ev.name = "coordinates"

\* The value or coordinates element of the document the parser last set
\* out to read, after the event: its depth, the text tokens inside it so
\* far, whether it is still open, the Data name it is read for (None for
\* coordinates), and whether a child element has started inside it.
\* Forgotten at the next Placemark or Data tag.
ElemAfter(ev) ==
    CASE EntersReadTextContent(ev) /\ ~elem.open ->
              [depth |-> Len(stack) + 1, text |-> "", open |-> TRUE,
               read |-> TRUE,
               name |-> IF pc = "kml_rdv" THEN name_str ELSE None,
               child |-> FALSE]
      [] ev.type \in {"Start", "End", "Empty"}
            /\ ev.name \in {"Placemark", "Data"} /\ ~elem.open -> NoElem
      [] ev.type = "Start" /\ elem.open -> [elem EXCEPT !.child = TRUE]
      [] ev.type = "Text" /\ elem.open ->
              [elem EXCEPT !.text = elem.text \o Unescape(ev.text)]
      [] ev.type = "End" /\ elem.open /\ Len(stack) = elem.depth ->
              [elem EXCEPT !.open = FALSE]
      [] OTHER -> elem

\* The reader moves past the event it gave; a failed read moves it nowhere
Advance(ev) ==
    /\ stack' = CASE ev.type = "Start" -> Append(stack, ev.name)
                  [] ev.type = "End" -> SubSeq(stack, 1, Len(stack) - 1)
                  [] OTHER -> stack
    /\ budget' = IF ev.type \in {"End", "Eof"} \/ ev = IoErrEvent
                 THEN budget ELSE budget - 1
    /\ medium' = IF ev = IoErrEvent THEN "failed" ELSE medium
    /\ elem' = ElemAfter(ev)
    /\ atEof' = (atEof \/ ev.type = "Eof")
    /\ docOk' = (/\ docOk
                 /\ ev.type # "Err"
                 /\ (ev.type = "Eof" => stack = <<>>))
    /\ plainDoc' = (/\ plainDoc
                    /\ ~(ev.type = "Empty" /\ ev.name = "Placemark")
                    /\ ~(/\ ev.type = "Start" /\ ev.name = "Placemark"
                          /\ \E i \in 1..Len(stack) : stack[i] = "Placemark"))
    /\ closedPlacemarks' =
          IF ev.type \in {"End", "Empty"} /\ ev.name = "Placemark"
          THEN closedPlacemarks + 1 ELSE closedPlacemarks

\* error_count += 1 on the i32 of kml_parser.rs:27, its width narrowed so
\* that MaxErrors stands for i32::MAX: without overflow checks the addition
\* wraps to the least value
WrappingAddOne(n) == IF n < MaxErrors THEN n + 1 ELSE -MaxErrors - 1

\* Whether error_count += 1 panics: only past the largest value, and only
\* in a build with overflow checks
OverflowPanics(n) == IF n = MaxErrors THEN BOOLEAN ELSE {FALSE}

\* kml_parser.rs:36: the accumulator after a Placemark start tag
KeepOnPlacemarkStart(acc) == acc
OnPlacemarkStart(acc) == PlacemarkDataNew

\* kml_parser.rs:64, 77: with skip_invalid an error is counted and skipped
KmlSkipPolicyAlwaysAborts(skip_invalid) == FALSE
KmlSkipPolicy(skip_invalid) == skip_invalid

\* kml_parser.rs:43, 50: `?` on the Result of read_data_value and
\* read_text_content returns the Err from parse_file
ReadErrorReturns == TRUE

\* parse_file returns Err(what); its locals are dropped
KmlReturnErr(what) ==
    /\ parseResult' = "err"
    /\ errInfo' = [what |-> what, line |-> 0]
    /\ records' = <<>>
    /\ pc' = "parse_done"

\* kml_parser.rs:19-30
KmlOpen ==
    /\ pc = "kml_open"
    /\ \/ /\ pc' = "kml_loop"
          /\ UNCHANGED <<parseResult, errInfo>>
       \/ /\ parseResult' = "err"
          /\ errInfo' = [what |-> "open", line |-> 0]
          /\ pc' = "parse_done"
    /\ records' = <<>>
    /\ error_count' = 0
    /\ in_placemark' = FALSE
    /\ current_placemark' = PlacemarkDataNew
    /\ UNCHANGED <<cfgVars, outcome, csvVars, name_str, content, convLog,
                   xmlVars, netVars>>

\* kml_parser.rs:32-86: one iteration of the event loop of parse_file
KmlMainLoop ==
    /\ pc = "kml_loop"
    /\ \E ev \in ReadEvents, panics \in OverflowPanics(error_count) :
        /\ panics => ev.type = "Err"
        /\ outcome' = IF panics THEN "panic" ELSE outcome
        /\ Advance(ev)
        /\ CASE ev.type = "Start" /\ ev.name = "Placemark" ->
                  /\ in_placemark' = TRUE
                  /\ current_placemark' = OnPlacemarkStart(current_placemark)
                  /\ UNCHANGED <<pc, records, parseVars, name_str, content,
                                 convLog>>
             [] ev.type = "Start" /\ ev.name = "Data" ->
                  /\ IF in_placemark /\ ev.attr # None
                     THEN /\ name_str' = ev.attr
                          /\ pc' = "kml_rdv"
                     ELSE UNCHANGED <<name_str, pc>>
                  /\ UNCHANGED <<records, parseVars, in_placemark,
                                 current_placemark, content, convLog>>
             [] ev.type = "Start" /\ ev.name = "coordinates" ->
                  /\ IF in_placemark
                     THEN /\ name_str' = None
                          /\ content' = ""
                          /\ pc' = "kml_rtc"
                     ELSE UNCHANGED <<name_str, content, pc>>
                  /\ UNCHANGED <<records, parseVars, in_placemark,
                                 current_placemark, convLog>>
             [] ev.type = "End" /\ ev.name = "Placemark" /\ in_placemark ->
                  LET conv == to_record(current_placemark)
                  IN /\ convLog' = Append(convLog, current_placemark)
                     /\ IF conv.ok
                        THEN /\ records' = Append(records, conv.rec)
                             /\ in_placemark' = FALSE
                             /\ UNCHANGED <<pc, parseVars>>
                        ELSE /\ error_count' = WrappingAddOne(error_count)
                             /\ IF KmlSkipPolicy(config.processing.skip_invalid)
                                THEN /\ in_placemark' = FALSE
                                     /\ UNCHANGED <<pc, records, parseResult,
                                                    errInfo>>
                                ELSE /\ KmlReturnErr("placemark")
                                     /\ UNCHANGED in_placemark
                     /\ UNCHANGED <<current_placemark, name_str, content>>
             [] ev.type = "Eof" ->
                  /\ parseResult' = "ok"
                  /\ pc' = "parse_done"
                  /\ UNCHANGED <<records, error_count, errInfo, kmlVars>>
             [] ev.type = "Err" ->
                  /\ IF panics
                     THEN /\ pc' = "exit"
                          /\ UNCHANGED <<records, parseVars>>
                     ELSE /\ error_count' = WrappingAddOne(error_count)
                          /\ IF KmlSkipPolicy(config.processing.skip_invalid)
                             THEN UNCHANGED <<pc, records, parseResult,
                                              errInfo>>
                             ELSE KmlReturnErr("xml")
                  /\ UNCHANGED kmlVars
             [] OTHER ->
                  UNCHANGED <<pc, records, parseVars, kmlVars>>
    /\ UNCHANGED <<cfgVars, csvVars, netVars>>

\* The String read_data_value or read_text_content returned is stored:
\* kml_parser.rs:43-44 for a Data element, 50-51 for coordinates
StoreValue(value) ==
    /\ current_placemark' =
          IF name_str # None THEN add_data(current_placemark, name_str, value)
          ELSE set_coordinates(current_placemark, value)
    /\ name_str' = None
    /\ content' = None
    /\ pc' = "kml_loop"
    /\ UNCHANGED <<records, parseVars>>

\* read_data_value or read_text_content returned Err(what)
ReadFailed(what) ==
    IF ReadErrorReturns
    THEN /\ KmlReturnErr(what)
         /\ UNCHANGED <<error_count, current_placemark, name_str, content>>
    ELSE /\ error_count' = WrappingAddOne(error_count)
         /\ name_str' = None
         /\ content' = None
         /\ IF KmlSkipPolicy(config.processing.skip_invalid)
            THEN /\ pc' = "kml_loop"
                 /\ UNCHANGED <<records, parseResult, errInfo,
                                current_placemark>>
            ELSE /\ KmlReturnErr(what)
                 /\ UNCHANGED current_placemark

\* kml_parser.rs:96-116: one iteration of the loop of read_data_value
KmlReadDataValue ==
    /\ pc = "kml_rdv"
    /\ \E ev \in ReadEvents :
        /\ Advance(ev)
        /\ CASE ev.type = "Start" /\ ev.name = "value" ->
                  /\ content' = ""
                  /\ pc' = "kml_rtc"
                  /\ UNCHANGED <<records, parseVars, current_placemark,
                                 name_str>>
             [] ev.type = "End" /\ ev.name = "Data" -> StoreValue("")
             [] ev.type = "Eof" -> StoreValue("")
             [] ev.type = "Err" -> ReadFailed("data value")
             [] OTHER ->
                  UNCHANGED <<pc, records, parseVars, current_placemark,
                              name_str, content>>
    /\ UNCHANGED <<cfgVars, outcome, csvVars, in_placemark, convLog, netVars>>

\* kml_parser.rs:118-137: one iteration of the loop of read_text_content
KmlReadTextContent ==
    /\ pc = "kml_rtc"
    /\ \E ev \in ReadEvents :
        /\ Advance(ev)
        /\ CASE ev.type = "Text" ->
                  /\ content' = content \o Unescape(ev.text)
                  /\ UNCHANGED <<pc, records, parseVars, current_placemark,
                                 name_str>>
             [] ev.type = "End" -> StoreValue(content)
             [] ev.type = "Eof" -> StoreValue(content)
             [] ev.type = "Err" -> ReadFailed("text content")
             [] OTHER ->
                  UNCHANGED <<pc, records, parseVars, current_placemark,
                              name_str, content>>
    /\ UNCHANGED <<cfgVars, outcome, csvVars, in_placemark, convLog, netVars>>

KmlNext == KmlOpen \/ KmlMainLoop \/ KmlReadDataValue \/ KmlReadTextContent

\* KmlParser::parse_file on any document within the bounds, both policies
InitKml ==
    /\ config \in {c \in Configs : /\ c.processing.batch_size = MaxBatch
                                   /\ c.influxdb.username = ""
                                   /\ c.influxdb.org = None
                                   /\ c.influxdb.token = None}
    /\ args = [NoArgs EXCEPT !.input = "track.kml"]
    /\ client = New(config.influxdb)
    /\ pc = "kml_open"
    /\ outcome = "running"
    /\ records = <<>>
    /\ budget = MaxEvents
    /\ ParseIdle
    /\ medium = "sound"
    /\ NetIdle

SpecKml == InitKml /\ [][KmlNext]_vars

\* KmlParser::parse_file on a file whose reads may fail, the loops running
\* on as long as they can
InitKmlIo ==
    /\ config \in {c \in Configs : /\ c.processing.batch_size = MaxBatch
                                   /\ c.influxdb.username = ""
                                   /\ c.influxdb.org = None
                                   /\ c.influxdb.token = None}
    /\ args = [NoArgs EXCEPT !.input = "track.kml"]
    /\ client = New(config.influxdb)
    /\ pc = "kml_open"
    /\ outcome = "running"
    /\ records = <<>>
    /\ budget = MaxInput
    /\ ParseIdle
    /\ medium = "failing"
    /\ NetIdle

SpecKmlIo == InitKmlIo /\ [][KmlNext]_vars /\ WF_vars(KmlNext)

\* KmlParser::parse_file on a sound medium, the loops running on as long
\* as they can
SpecKmlFair == SpecKml /\ WF_vars(KmlNext)

\* ------------------------------------------------------------------ main
\* main.rs:93-127: the client is built; --test-connection, the input file
\* and its format are looked at
MainStart ==
    /\ pc = "main"
    /\ client' = New(config.influxdb)
    /\ IF args.test_connection
       THEN /\ pc' = "tconly_call"
            /\ outcome' = outcome
       ELSE IF args.input = None \/ ~Exists(args.input)
       THEN /\ pc' = "exit"
            /\ outcome' = "exit1"
       ELSE /\ pc' = IF IsKml(args.input) THEN "kml_open" ELSE "csv_open"
            /\ outcome' = outcome
    /\ UNCHANGED <<config, args, records, parseVars, csvVars, kmlVars,
                   xmlVars, netVars>>

\* influx_client.rs:56-60, 71: test_connection sends its request
\* (main.rs:99 with --test-connection, main.rs:171 before an upload)
TestConnectionCall ==
    /\ pc \in {"tconly_call", "tc_call"}
    /\ wire' = Append(wire, TestConnectionOp(client))
    /\ pc' = IF pc = "tconly_call" THEN "tconly_await" ELSE "tc_await"
    /\ UNCHANGED <<cfgVars, outcome, records, parseVars, csvVars, kmlVars,
                   xmlVars, bi, batchResult, calls, results>>

\* influx_client.rs:60-80 and main.rs:99-101, 171-184: the answer arrives
TestConnectionReturn ==
    /\ pc \in {"tconly_await", "tc_await"}
    /\ \E ok \in BOOLEAN :
          /\ results' = Append(results, ok)
          /\ IF pc = "tconly_await"
             THEN /\ pc' = "exit"
                  /\ outcome' = IF ok THEN "ok" ELSE "err"
             ELSE IF ConnectionErrorReturns(ok)
             THEN /\ pc' = "exit"
                  /\ outcome' = "err"
             ELSE /\ pc' = "cdb_call"
                  /\ outcome' = outcome
    /\ UNCHANGED <<cfgVars, records, parseVars, csvVars, kmlVars, xmlVars,
                   bi, batchResult, calls, wire>>

\* influx_client.rs:84-88, 100-105 (main.rs:187): V1 sends CREATE DATABASE,
\* V2 returns Ok at once
CreateDatabaseCall ==
    /\ pc = "cdb_call"
    /\ IF client.variant = "V1"
       THEN /\ wire' = Append(wire, CreateDatabaseOp(client))
            /\ pc' = "cdb_await"
       ELSE /\ wire' = wire
            /\ pc' = "wrb"
    /\ UNCHANGED <<cfgVars, outcome, records, parseVars, csvVars, kmlVars,
                   xmlVars, bi, batchResult, calls, results>>

\* influx_client.rs:88-98: Ok whatever the answer is
CreateDatabaseReturn ==
    /\ pc = "cdb_await"
    /\ \E ok \in BOOLEAN :
          /\ results' = Append(results, ok)
          /\ IF CreateDatabaseResult(ok) = "ok"
             THEN /\ pc' = "wrb"
                  /\ outcome' = outcome
             ELSE /\ pc' = "exit"
                  /\ outcome' = "err"
    /\ UNCHANGED <<cfgVars, records, parseVars, csvVars, kmlVars,
                   xmlVars, bi, batchResult, calls, wire>>

\* main.rs:123-167: parse_file has returned.  With --dry-run --verbose a
\* second client is built from the same configuration and
\* format_records_for_influx is called on it, which sends nothing.
MainAfterParse ==
    /\ pc = "parse_done"
    /\ IF parseResult = "err"
       THEN /\ pc' = "exit"
            /\ outcome' = "err"
       ELSE IF IsEmpty(records) \/ DryRun(args)
       THEN /\ pc' = "exit"
            /\ outcome' = "ok"
       ELSE /\ pc' = "tc_call"
            /\ outcome' = outcome
    /\ UNCHANGED <<cfgVars, records, parseVars, csvVars, kmlVars, xmlVars,
                   netVars>>

\* main.rs:191-214: write_records_batch has returned
MainAfterBatch ==
    /\ pc = "wrb_done"
    /\ pc' = "exit"
    /\ outcome' = IF batchResult = "ok" THEN "ok" ELSE "err"
    /\ UNCHANGED <<cfgVars, records, parseVars, csvVars, kmlVars, xmlVars,
                   netVars>>

MainNext ==
    \/ MainStart
    \/ CsvNext
    \/ KmlNext
    \/ MainAfterParse
    \/ TestConnectionCall
    \/ TestConnectionReturn
    \/ CreateDatabaseCall
    \/ CreateDatabaseReturn
    \/ BatchNext
    \/ MainAfterBatch

\* main.rs:18-57: clap refuses a command line with neither --input nor
\* --test-connection (required_unless_present)
InputFiles == {"log.csv", "TRACK.KML", "missing.csv"}
ArgsSets ==
    {a \in [test_connection : BOOLEAN, dry_run : BOOLEAN, verbose : BOOLEAN,
            input : InputFiles \cup {None}] :
        /\ a.input = None => a.test_connection
        /\ a.verbose => a.dry_run}

\* The configurations of whole runs: every connection setting with one
\* processing setting, and every processing setting with the default (V1,
\* anonymous) and with a V2 connection setting
MainConfigs ==
    {c \in Configs :
        \/ c.processing = [batch_size |-> 1, skip_invalid |-> TRUE]
        \/ /\ c.influxdb.username = ""
           /\ \/ c.influxdb.token = None /\ c.influxdb.org = None
              \/ c.influxdb.token = "tok" /\ c.influxdb.org = "myorg"}

\* A whole run of main on any configuration, command line and input file
\* within the bounds
Init ==
    /\ config \in MainConfigs
    /\ args \in ArgsSets
    /\ client = None
    /\ pc = "main"
    /\ outcome = "running"
    /\ records = <<>>
    /\ budget = MaxInput
    /\ ParseIdle
    /\ medium = "sound"
    /\ NetIdle

Spec == Init /\ [][MainNext]_vars

\* ---------------------------------------------------------------- C5
RECURSIVE RecordsOfPlacemarks(_)
RecordsOfPlacemarks(pms) ==
    IF pms = <<>> THEN <<>>
    ELSE <<to_record(Head(pms)).rec>> \o RecordsOfPlacemarks(Tail(pms))

Converts(pm) == to_record(pm).ok

\* What C5 says of a parse that has returned, given the placemarks
\* converted and the number of Placemark elements closed
ConversionsAsClaimed ==
    /\ Len(convLog) = closedPlacemarks
    /\ IF config.processing.skip_invalid
       THEN /\ parseResult = "ok"
            /\ records = RecordsOfPlacemarks(SelectSeq(convLog, Converts))
            /\ error_count = Len(convLog) - Len(SelectSeq(convLog, Converts))
       ELSE /\ \A i \in 1..(Len(convLog) - 1) : Converts(convLog[i])
            /\ IF parseResult = "ok"
               THEN /\ \A i \in 1..Len(convLog) : Converts(convLog[i])
                    /\ records = RecordsOfPlacemarks(convLog)
               ELSE /\ errInfo.what = "placemark"
                    /\ ~Converts(convLog[Len(convLog)])
                    /\ records = <<>>

\* C5: for a well-formed document parse_file attempts exactly one
\* conversion per closed Placemark element and appends the successes in
\* document order; with skip_invalid a failing placemark is counted once
\* and skipped, without it the parse returns an error at the first failing
\* placemark.
C5_OneConversionPerClosedPlacemark ==
    (pc = "parse_done" /\ docOk /\ ~(parseResult = "err" /\ errInfo.what = "open"))
    => ConversionsAsClaimed

\* The same for the documents in which every Placemark has a start and an
\* end tag and none is inside another Placemark
C5_PlainPlacemarks ==
    (pc = "parse_done" /\ docOk /\ plainDoc
        /\ ~(parseResult = "err" /\ errInfo.what = "open"))
    => ConversionsAsClaimed

\* ---------------------------------------------------------------- C6
\* C6: a reader-level XML error is handled by the skip/abort policy wherever
\* it occurs: with skip_invalid = true parse_file does not return an error
\* for it (it returns the records parsed), with skip_invalid = false it
\* returns an error.
C6_ReaderErrorFollowsPolicy ==
    /\ (config.processing.skip_invalid /\ parseResult = "err")
          => errInfo.what = "open"
    /\ (~config.processing.skip_invalid /\ ~docOk /\ ~atEof
          /\ pc \in {"kml_loop", "kml_rdv", "kml_rtc", "parse_done"})
          => parseResult = "err"

\* ---------------------------------------------------------------- C7
\* The time string matches one of the KML time patterns
MatchesKmlPattern(time_str) ==
    \E i \in 1..Len(KmlFormats) :
        FormatOf(ReplaceChar(time_str, "_", " ")) = KmlFormats[i]

BadTime(pm) == pm.time # None /\ ~MatchesKmlPattern(pm.time)
GoodOrNoTime(pm) == ~BadTime(pm)

\* C7: a placemark whose accumulated time string is present and matches no
\* KML time pattern never contributes a record, whatever skip_invalid is:
\* the records are those of the converted placemarks without such a time
\* string.  With skip_invalid the failure is counted and parsing goes on;
\* without it the parse has returned an error at that placemark.
C7_BadTimeNeverARecord ==
    /\ \A i \in 1..Len(convLog) : BadTime(convLog[i]) => ~Converts(convLog[i])
    /\ parseResult # "err"
          => records = RecordsOfPlacemarks(SelectSeq(convLog, GoodOrNoTime))
    /\ parseResult = "err" => records = <<>>
    /\ config.processing.skip_invalid
          => /\ error_count >= Len(SelectSeq(convLog, BadTime))
             /\ parseResult = "err" => errInfo.what # "placemark"
    /\ (~config.processing.skip_invalid /\ \E i \in 1..Len(convLog) :
                                              BadTime(convLog[i]))
          => /\ BadTime(convLog[Len(convLog)])
             /\ \A i \in 1..(Len(convLog) - 1) : ~BadTime(convLog[i])
             /\ parseResult = "err" /\ errInfo.what = "placemark"
             /\ pc = "parse_done"

\* C7 witness: a placemark with the time "not-a-date" was skipped and the
\* placemark after it gave the only record
C7_Witness ==
    /\ config.processing.skip_invalid
    /\ pc = "parse_done" /\ parseResult = "ok"
    /\ Len(convLog) = 2
    /\ convLog[1].time = "not-a-date"
    /\ records = <<to_record(convLog[2]).rec>>
    /\ error_count = 1

\* C7 witness without skip_invalid: the same placemark aborted the parse
C7_WitnessAbort ==
    /\ ~config.processing.skip_invalid
    /\ pc = "parse_done" /\ parseResult = "err"
    /\ Len(convLog) = 2
    /\ convLog[2].time = "not-a-date"

\* ---------------------------------------------------------------- C1
\* The chunks records.chunks(batch_size) is expected to give
NChunks(n, bs) == (n + bs - 1) \div bs

\* C1: for n >= 1 records and batch_size >= 1, when every write succeeds
\* write_records_batch has called write_records exactly ceil(n / batch_size)
\* times; every chunk but the last has batch_size records, the last has
\* between 1 and batch_size, and the chunks concatenated in call order are
\* the input sequence.
C1_BatchChunking ==
    (pc = "wrb_done" /\ batchResult = "ok" /\ Len(records) >= 1
        /\ config.processing.batch_size >= 1)
    => LET bs == config.processing.batch_size
           n == Len(records)
       IN /\ Len(calls) = NChunks(n, bs)
          /\ Len(wire) = Len(calls)
          /\ \A i \in 1..Len(calls) :
                /\ i < Len(calls) => Len(calls[i]) = bs
                /\ Len(calls[i]) >= 1 /\ Len(calls[i]) <= bs
                /\ wire[i] = WriteOp(client, calls[i])
                /\ results[i]
          /\ Concat(calls) = records

\* C1 witness: a run with a short last chunk has completed
C1_Witness ==
    /\ pc = "wrb_done" /\ batchResult = "ok"
    /\ config.processing.batch_size = 2
    /\ Len(records) = 3
    /\ Len(calls) = 2

\* ---------------------------------------------------------------- C2
\* C2: if the k-th chunk write is the first to fail, write_records_batch
\* returns the error after exactly k write calls: the calls made are the
\* first k chunks, the first k-1 answers are successes, the k-th is the
\* failure, and the wire holds these k writes and nothing else (no later
\* chunk, no rollback, no compensating call).
C2_FirstFailureAborts ==
    (pc = "wrb_done" /\ batchResult = "err")
    => LET bs == config.processing.batch_size
           k == Len(calls)
       IN /\ k >= 1
          /\ \A i \in 1..(k - 1) : results[i]
          /\ \A i \in 1..k : calls[i] = Chunk(records, bs, i - 1)
          /\ \A i \in 1..Len(wire) : wire[i] = WriteOp(client, calls[i])
          /\ \/ Len(wire) = k /\ Len(results) = k /\ ~results[k]
             \/ /\ Len(wire) = k - 1 /\ Len(results) = k - 1
                /\ client.variant = "V2"

\* C2, the other direction: a failed write is never followed by another call
C2_NoCallAfterFailure ==
    /\ (\E i \in 1..Len(results) : ~results[i])
       => /\ Len(results) = Len(wire)
          /\ Len(calls) = Len(wire)
          /\ ~results[Len(results)]
          /\ \A i \in 1..(Len(results) - 1) : results[i]
          /\ pc = "wrb_done" /\ batchResult = "err"
    /\ Len(calls) > Len(wire)
       => pc = "wrb_done" /\ batchResult = "err" /\ Len(calls) = Len(wire) + 1

C2_Theorem == C2_FirstFailureAborts /\ C2_NoCallAfterFailure

\* C2 witness: the second of three chunks failed
C2_Witness ==
    /\ pc = "wrb_done" /\ batchResult = "err"
    /\ Len(results) = 2 /\ ~results[2]
    /\ NChunks(Len(records), config.processing.batch_size) = 3

\* ---------------------------------------------------------------- C8
Present(x) == x # None /\ x # ""

OpsOfVariant(v) ==
    IF v = "V2" THEN {"v2_health", "v2_write"}
    ELSE {"v1_show_databases", "v1_create_database", "v1_write"}

\* C8: InfluxClient::new never fails; the client is V2 exactly when token
\* and org are both present and non-empty, with the database name as its
\* bucket, and V1 otherwise, with basic auth exactly when the username is
\* non-empty; every wire operation of the run is one of that variant.
C8_DialectSelection ==
    pc # "main" =>
        /\ client.variant \in {"V1", "V2"}
        /\ client.variant = "V2"
              <=> (Present(config.influxdb.token) /\ Present(config.influxdb.org))
        /\ client.variant = "V2"
              => /\ client.bucket = config.influxdb.database
                 /\ client.org = config.influxdb.org
        /\ client.variant = "V1"
              => /\ client.database = config.influxdb.database
                 /\ client.auth = "basic" <=> config.influxdb.username # ""
                 /\ client.auth \in {"basic", "anonymous"}
        /\ \A i \in 1..Len(wire) : wire[i].op \in OpsOfVariant(client.variant)

\* C8 witness: a V1 client was chosen although a token is configured (the
\* org is empty), and it has sent a V1 write
C8_Witness ==
    /\ pc = "exit"
    /\ client.variant = "V1"
    /\ config.influxdb.token = "tok"
    /\ config.influxdb.org = ""
    /\ \E i \in 1..Len(wire) : wire[i].op = "v1_write"

\* ---------------------------------------------------------------- C9
ParsePcs == {"csv_open", "csv_loop", "kml_open", "kml_loop", "kml_rdv",
             "kml_rtc"}

\* C9: when parsing has returned zero records the run ends successfully and
\* never sends anything: nothing is on the wire and write_records is never
\* called.
C9_NoRecordsNoWrite ==
    (parseResult = "ok" /\ records = <<>>)
    => /\ pc \in {"parse_done", "exit"}
       /\ pc = "exit" => outcome = "ok"
       /\ pc = "parse_done" => outcome = "running"
       /\ wire = <<>>
       /\ calls = <<>>

\* C9 witness: an upload run on a file whose only row was skipped has ended
C9_Witness ==
    /\ pc = "exit" /\ outcome = "ok"
    /\ ~args.dry_run /\ ~args.test_connection
    /\ parseResult = "ok" /\ records = <<>>
    /\ error_count = 1

\* ---------------------------------------------------------------- C10
IsWrite(o) == o.op \in {"v1_write", "v2_write"}

\* The wire operations an upload run has sent once the connectivity test
\* and the database step are behind it, given the number of writes sent
UploadOps(nWrites) ==
    <<TestConnectionOp(client)>>
    \o (IF client.variant = "V1" THEN <<CreateDatabaseOp(client)>> ELSE <<>>)
    \o [i \in 1..nWrites |->
          WriteOp(client, Chunk(records, config.processing.batch_size, i - 1))]

\* C10: in an upload run nothing is sent before parse_file has returned Ok;
\* the operations sent are, in this order, the connectivity test, the
\* database statement (V1) and the writes in chunk order; a write is sent
\* only after the connectivity test succeeded; and an operation is sent
\* only when every earlier one has been answered.
C10_UploadOrder ==
    (~args.test_connection /\ wire # <<>>)
    => /\ parseResult = "ok" /\ pc \notin ParsePcs \cup {"main", "parse_done"}
       /\ ~args.dry_run /\ records # <<>>
       /\ Len(results) <= Len(wire) /\ Len(wire) <= Len(results) + 1
       /\ \E n \in 0..Len(records) : IsPrefix(wire, UploadOps(n))
       /\ (\E i \in 1..Len(wire) : IsWrite(wire[i]))
             => /\ results[1]
                /\ pc \in {"wrb_loop", "wrb_await", "wrb_done", "exit"}

\* C10 witness: a V1 upload of two chunks has completed
C10_Witness ==
    /\ pc = "exit" /\ outcome = "ok"
    /\ ~args.test_connection
    /\ client.variant = "V1"
    /\ Len(wire) = 4
    /\ IsWrite(wire[3]) /\ IsWrite(wire[4])

\* ---------------------------------------------------------------- C11
\* C11: a run with --test-connection sends the connectivity test and nothing
\* else and never parses (whatever --dry-run and --input are); a run with
\* --dry-run and no --test-connection parses the file and sends nothing; so
\* neither ever issues a write.
C11_NoWriteInDryRunOrTest ==
    /\ (args.test_connection \/ args.dry_run)
          => /\ calls = <<>>
             /\ \A i \in 1..Len(wire) : ~IsWrite(wire[i])
    /\ args.test_connection
          => /\ pc \in {"main", "tconly_call", "tconly_await", "exit"}
             /\ parseResult = "none" /\ records = <<>> /\ lines = <<>>
             /\ IsPrefix(wire, <<TestConnectionOp(New(config.influxdb))>>)
             /\ pc = "exit" => Len(wire) = 1 /\ Len(results) = 1
    /\ (args.dry_run /\ ~args.test_connection)
          => /\ wire = <<>>
             /\ pc \in ParsePcs \cup {"main", "parse_done", "exit"}
             /\ (pc = "exit" /\ Exists(args.input)) => parseResult # "none"

\* C11 witness: a --dry-run run has parsed two records and ended, with
\* nothing sent
C11_Witness ==
    /\ args.dry_run /\ ~args.test_connection
    /\ pc = "exit" /\ outcome = "ok"
    /\ Len(records) = 2
    /\ wire = <<>>

\* a --test-connection run given --dry-run and an input file too has ended
\* after the connectivity test alone
C11_WitnessTest ==
    /\ args.test_connection /\ args.dry_run /\ args.input = "log.csv"
    /\ pc = "exit"
    /\ Len(wire) = 1

\* ---------------------------------------------------------------- C12
AfterCreateDb == {"wrb", "wrb_loop", "wrb_await", "wrb_done", "exit"}

CreateDbOps == {i \in 1..Len(wire) : wire[i].op = "v1_create_database"}

\* C12: create_database_if_not_exists always returns success: a V1 client
\* sends exactly one create-database statement and the run goes on to the
\* batch writes whatever the answer was, a V2 client sends nothing for it;
\* a run that got past the connectivity test with records to write and a
\* positive batch size never ends without having called write_records.
C12_CreateDatabaseAlwaysOk ==
    (~args.test_connection /\ pc # "main") =>
        /\ client.variant = "V2" => CreateDbOps = {}
        /\ client.variant = "V1" =>
              /\ CreateDbOps \subseteq {2}
              /\ (pc \in AfterCreateDb /\ Len(results) >= 1 /\ results[1])
                    => CreateDbOps = {2}
              /\ Len(results) >= 2 => pc \in AfterCreateDb
        /\ (/\ pc = "exit" /\ Len(results) >= 1 /\ results[1]
            /\ config.processing.batch_size > 0)
              => /\ calls # <<>>
                 /\ outcome = batchResult

\* C12 witness: the create-database statement failed and a write was sent
\* after it
C12_Witness ==
    /\ ~args.test_connection /\ pc # "main"
    /\ client.variant = "V1"
    /\ Len(results) >= 2 /\ ~results[2]
    /\ Len(wire) >= 3 /\ IsWrite(wire[3])
    /\ calls # <<>>

\* ---------------------------------------------------------------- C13
PointOf(cl, r) == IF cl.variant = "V1" THEN PointV1(r) ELSE PointV2(r)

\* C13: write_records on an empty input returns Ok with nothing sent; on a
\* non-empty input it sends at most one wire operation, which carries one
\* point per input record in input order, and it returns Err exactly when a
\* point could not be built (nothing was sent) or that one operation failed.
C13_WriteRecordsAtomic ==
    /\ Len(wire) <= 1
    /\ pc = "wr_done" =>
          /\ calls = <<records>>
          /\ batchResult \in {"ok", "err"}
          /\ records = <<>> => (batchResult = "ok" /\ wire = <<>>)
          /\ Len(results) = Len(wire)
          /\ wire # <<>> =>
                /\ Len(wire[1].points) = Len(records)
                /\ \A i \in 1..Len(records) :
                      wire[1].points[i] = PointOf(client, records[i])
          /\ records # <<>> =>
                (batchResult = "err" <=> (wire = <<>> \/ ~results[1]))

\* C13 witness: the one operation for three records failed
C13_Witness ==
    /\ pc = "wr_done"
    /\ Len(records) = 3
    /\ Len(wire) = 1 /\ ~results[1]
    /\ batchResult = "err"

\* write_records returned Ok for the empty input
C13_WitnessEmpty ==
    /\ pc = "wr_done" /\ records = <<>> /\ batchResult = "ok"

\* ---------------------------------------------------------------- C14
\* The cell values of the model that are numbers
NumberTexts == {"-95.5", "42", "139.123", "35.456", "-95", "1e3", "0",
                "1759486809"}

NumericColumns ==
    {i \in 1..Len(headers) : FieldOfHeader(ToLower(headers[i])) \in NumericFields}

WithCell(cells, i, v) == [cells EXCEPT ![i] = v]

\* The rows read that did not convert although they tokenized
FailedRows == SelectSeq(lines, LAMBDA l : l.kind = "row" /\ ~ConvertsOk(l))

\* C14: in the tabular parser the value of a numeric column never fails a
\* row and is never counted: the row converts exactly when it converts with
\* a number in that column; the empty string, N/A and null and any text that
\* is not a number leave that one field absent, a number gives the field
\* its value, and every other field of the record is what it is with any
\* other value in that column.  In a file with no timestamp column only
\* lines that do not tokenize are counted.
C14_NumericNeverFailsRow ==
    (pc \in {"csv_loop", "parse_done"} /\ headers # <<>>) =>
        /\ \A j \in 1..Len(lines) : \A i \in NumericColumns :
              lines[j].kind = "row" =>
                 LET cells == lines[j].cells
                     f == FieldOfHeader(ToLower(headers[i]))
                     conv == from_csv_record(cells, headers)
                     other == from_csv_record(WithCell(cells, i, "0"), headers)
                 IN /\ conv.ok = other.ok
                    /\ conv.ok =>
                          /\ conv.rec[f] = IF cells[i] \in NumberTexts
                                           THEN FloatOf(cells[i]) ELSE None
                          /\ cells[i] \in NumberTexts => conv.rec[f] # None
                          /\ \A g \in DOMAIN conv.rec :
                                g # f => conv.rec[g] = other.rec[g]
        /\ (\A i \in 1..Len(headers) :
               FieldOfHeader(ToLower(headers[i])) # "timestamp")
              => /\ FailedRows = <<>>
                 /\ error_count = Len(SelectSeq(lines,
                                        LAMBDA l : l.kind = "malformed"))

\* C14 witness: with no timestamp column, a row with text that is not a
\* number and a null, and a row with an empty value, were both returned and
\* nothing was counted
C14_Witness ==
    /\ pc = "parse_done" /\ parseResult = "ok"
    /\ headers = <<"Level", "Speed">>
    /\ lines = <<RowLine(<<"not-a-date", "null">>), RowLine(<<"", "-95.5">>)>>
    /\ Len(records) = 2 /\ error_count = 0
    /\ records[1].level = None /\ records[1].speed = None
    /\ records[2].level = None /\ records[2].speed = "-95.5"

\* ---------------------------------------------------------------- C15
\* The values of the model that one of the tabular timestamp patterns matches
PatternTexts == {"2025-10-03 10:20:09", "2025/10/03 10:20:09",
                 "03.10.2025 10:20:09", "2025-10-03 10:20:09.123",
                 "2025-10-03T10:20:09", "2025-10-03T10:20:09Z",
                 "2025-10-03T10:20:09.123Z"}

\* The values of the model that are valid Unix epoch seconds
EpochTexts == {"1759486809", "0"}

TimestampColumns ==
    {i \in 1..Len(headers) : ToLower(headers[i]) \in {"timestamp", "time"}}

BadTimestampCell(v) == v # "" /\ v \notin PatternTexts /\ v \notin EpochTexts

\* C15: conversion of a tabular row fails exactly when a column whose header
\* is timestamp or time (in any case) holds a non-empty value that no
\* timestamp pattern matches and that is not valid epoch seconds; with no
\* such column, or only empty values in them, the row converts and its
\* timestamp is the current time.
C15_RowFailsIffBadTimestamp ==
    pc = "row_done" =>
        LET cells == lines[1].cells
        IN /\ parseResult \in {"ok", "err"}
           /\ parseResult = "err"
                 <=> \E i \in TimestampColumns : BadTimestampCell(cells[i])
           /\ parseResult = "ok" => Len(records) = 1
           /\ (\A i \in TimestampColumns : cells[i] = "")
                 => /\ parseResult = "ok"
                    /\ records[1].timestamp = "now"

\* C15 witness: a row failed on an epoch number out of range in a column
\* headed "time"
C15_Witness ==
    /\ pc = "row_done" /\ parseResult = "err"
    /\ headers = <<"Operator", "time">>
    /\ lines[1].cells = <<"not-a-date", "99999999999999999">>

\* a row without a timestamp column got the current time
C15_WitnessNow ==
    /\ pc = "row_done" /\ parseResult = "ok"
    /\ headers = <<"Level", "Speed">>
    /\ lines[1].cells = <<"not-a-date", "2025.10.03_10.20.09">>
    /\ records[1].timestamp = "now"

\* ---------------------------------------------------------------- C16
TagAttributes == {"operator_name", "operator_code", "cell_id",
                  "network_tech", "network_mode", "lac"}
NumericAttributes == {"longitude", "latitude", "speed", "level", "qual",
                      "snr", "cqi", "dl_bitrate", "ul_bitrate"}
TextAttributes == {"cgi", "cellname", "node", "arfcn"}

\* The content a point is to have for record r
ContentFor(r) ==
    [measurement |-> "network_measurements",
     tags |-> {<<"measurement_type", "str", "gnettrack">>}
              \cup {<<f, "str", r[f]>> : f \in {g \in TagAttributes : r[g] # None}},
     fields |-> {<<f, "f64", r[f]>> :
                    f \in {g \in NumericAttributes : r[g] # None}}
                \cup {<<f, "str", r[f]>> :
                    f \in {g \in TextAttributes : r[g] # None}}]

Content(point) ==
    [measurement |-> point.measurement, tags |-> point.tags,
     fields |-> point.fields]

\* C16: the point either writer sends for a record has the fixed
\* measurement name, the constant tag, a tag for each present attribute of
\* the six tag attributes, a numeric field for each present one of the nine
\* numeric attributes, a text field for each present one of cgi, cellname,
\* node and arfcn, and nothing for an absent attribute; the V1 and V2 points
\* of the record have this same content.
C16_SamePointContent ==
    (pc \in {"wr_await", "wr_done"} /\ wire # <<>>) =>
        LET r == records[1]
        IN /\ Len(wire[1].points) = 1
           /\ Content(wire[1].points[1]) = ContentFor(r)
           /\ Content(PointV1(r)) = Content(PointV2(r))
           /\ wire[1].points[1] = PointOf(client, r)

\* C16 witness: a V2 point was sent for a record with only lac and arfcn
\* present
C16_Witness ==
    /\ pc = "wr_done" /\ Len(wire) = 1
    /\ client.variant = "V2"
    /\ {f \in OptionFields : records[1][f] # None} = {"lac", "arfcn"}
    /\ wire[1].points[1].tags
          = {<<"measurement_type", "str", "gnettrack">>, <<"lac", "str", "x">>}
    /\ wire[1].points[1].fields = {<<"arfcn", "str", "x">>}

\* a V1 point was sent for the record with every attribute present
C16_WitnessFull ==
    /\ pc = "wr_done" /\ Len(wire) = 1
    /\ client.variant = "V1"
    /\ \A f \in OptionFields : records[1][f] # None
    /\ Cardinality(wire[1].points[1].tags) = 7
    /\ Cardinality(wire[1].points[1].fields) = 13

\* ---------------------------------------------------------------- C17
\* The step is the main loop taking a Placemark start tag
PlacemarkStarts ==
    /\ pc = "kml_loop"
    /\ Len(stack') = Len(stack) + 1
    /\ stack'[Len(stack')] = "Placemark"

\* The step is the main loop taking a Placemark end tag
PlacemarkEnds ==
    /\ pc = "kml_loop"
    /\ stack # <<>> /\ stack[Len(stack)] = "Placemark"
    /\ Len(stack') = Len(stack) - 1

KmlLoopPcs == {"kml_loop", "kml_rdv", "kml_rtc"}

\* The accumulator is empty when a Placemark starts
C17_ResetOnStart == PlacemarkStarts => current_placemark' = PlacemarkDataNew

\* Outside a Placemark no step but a Placemark start changes the
\* accumulator or the result, and none reads a Data or coordinates element
C17_OutsideIgnored ==
    (pc \in KmlLoopPcs /\ ~in_placemark /\ ~PlacemarkStarts)
    => /\ current_placemark' = current_placemark
       /\ convLog' = convLog
       /\ records' = records \/ parseResult' = "err"
       /\ pc' \in {"kml_loop", "parse_done"}
       /\ ~in_placemark'

\* Inside a Placemark the accumulator changes only when a value read from a
\* Data or coordinates element is stored
C17_OnlyOwnValues ==
    (pc \in KmlLoopPcs /\ current_placemark' # current_placemark
        /\ ~PlacemarkStarts)
    => /\ in_placemark /\ in_placemark'
       /\ pc \in {"kml_rdv", "kml_rtc"} /\ pc' = "kml_loop"
       /\ current_placemark' \in
             {set_coordinates(current_placemark, content),
              set_coordinates(current_placemark, ""),
              add_data(current_placemark, name_str, content),
              add_data(current_placemark, name_str, "")}

\* A record is appended only at the end tag of the open Placemark, from the
\* accumulator as it then is
C17_RecordFromOwnAccumulator ==
    (pc \in KmlLoopPcs /\ records' # records /\ parseResult' # "err")
    => /\ PlacemarkEnds /\ in_placemark /\ ~in_placemark'
       /\ to_record(current_placemark).ok
       /\ records' = Append(records, to_record(current_placemark).rec)

C17_WitnessOutside ==
    /\ pc = "kml_loop" /\ ~in_placemark
    /\ Len(records) = 1
    /\ stack # <<>> /\ stack[Len(stack)] = "Data"

\* ---------------------------------------------------------------- C18
\* The string stored for the element: the field add_data or
\* set_coordinates put it in
StoredFor(name) ==
    CASE name = None -> current_placemark.coordinates
      [] name = TimeLabel -> current_placemark.time
      [] name = RsrpLabel -> current_placemark.rsrp
      [] OTHER -> None

\* C18: while a value or coordinates element the parser reads is open, the
\* parser is in read_text_content and holds every text token of the element
\* so far; once the element has closed, the stored string is the
\* concatenation of all its text tokens, those after a nested child element
\* included.
C18_AllTextUntilClose ==
    (docOk /\ ~atEof /\ elem.read /\ pc \in KmlLoopPcs) =>
        /\ elem.open => (pc = "kml_rtc" /\ content = elem.text)
        /\ ~elem.open => StoredFor(elem.name) = elem.text

\* The same for the elements in which no child element starts
C18_NoChildElement ==
    (docOk /\ ~atEof /\ elem.read /\ pc \in KmlLoopPcs /\ ~elem.child) =>
        /\ elem.open => (pc = "kml_rtc" /\ content = elem.text)
        /\ ~elem.open => StoredFor(elem.name) = elem.text

\* ---------------------------------------------------------------- C19
\* C19: write_records_batch returns a Result for every batch size the
\* configuration can hold, 0 included: it never panics, and when it has
\* stopped it has returned Ok or Err.
C19_ReturnsForEveryBatchSize ==
    /\ outcome # "panic"
    /\ pc \in {"wrb_done", "exit"} => batchResult \in {"ok", "err"}

\* ---------------------------------------------------------------- C20
\* C20: KmlParser::parse_file terminates under both policies: whatever the
\* reader gives, the loops of parse_file, read_data_value and
\* read_text_content run on to the point where parse_file stops, by
\* returning or, at the least, by a panic.
C20_ParseFileTerminates == <>(pc \in {"parse_done", "exit"})

\* The part of C20 about the nested loops: an End event, the end of the
\* document or an error never leaves read_text_content running, and the
\* end of the document or an error never leaves read_data_value running
C20_NestedLoopsExit ==
    [][LET failed == \/ docOk /\ ~docOk'
                     \/ medium # "failed" /\ medium' = "failed"
       IN /\ (pc = "kml_rtc" /\ (Len(stack') < Len(stack) \/ atEof' \/ failed))
                => pc' # "kml_rtc"
          /\ (pc = "kml_rdv" /\ (atEof' \/ failed)) => pc' # "kml_rdv"]_vars

\* The part of C20 about a reader that moves on after every Err: under
\* SpecKmlFair parse_file returns
C20_TerminatesWhenReaderMovesOn ==
    <>(pc = "parse_done" /\ parseResult \in {"ok", "err"})

\* parse_file is still in its main loop after the error counter has
\* wrapped, with nothing of the input consumed
C20_WitnessSameErrorAgain ==
    /\ pc = "kml_loop" /\ medium = "failed"
    /\ config.processing.skip_invalid
    /\ error_count < 0 /\ budget = MaxInput

\* ---------------------------------------------------------------- C21
NoTime(pm) == pm.time = None

\* Every conversion parse_file made of a placemark without a time field
\* succeeded, every failed conversion is of a placemark with a time string
\* that matches no KML time pattern, and the record of a placemark without
\* a time field carries the current time
C21_NoTimeConvertsWithNow ==
    /\ \A i \in 1..Len(convLog) :
          /\ NoTime(convLog[i]) => Converts(convLog[i])
          /\ ~Converts(convLog[i]) => BadTime(convLog[i])
    /\ parseResult # "err" =>
          LET converted == SelectSeq(convLog, Converts)
          IN /\ Len(records) = Len(converted)
             /\ \A i \in 1..Len(converted) :
                   NoTime(converted[i]) => records[i].timestamp = "now"

\* The reader gives Eof while a Placemark is open: the step adds no record,
\* counts no error and attempts no conversion, and from the main loop
\* parse_file returns Ok
C21_UnclosedYieldsNothing ==
    (pc \in KmlLoopPcs /\ in_placemark /\ atEof') =>
        /\ records' = records
        /\ error_count' = error_count
        /\ convLog' = convLog
        /\ pc = "kml_loop" => (pc' = "parse_done" /\ parseResult' = "ok")

C21_WitnessUnclosed ==
    /\ pc = "parse_done" /\ parseResult = "ok"
    /\ in_placemark /\ current_placemark.coordinates # None
    /\ stack # <<>> /\ stack[1] = "Placemark"
    /\ records = <<>> /\ convLog = <<>> /\ error_count = 0

====
